---- MODULE Spec2Model ----
(***************************************************************************)
(* Bulk operations of the mail tooling: AccountManager (bulk-operations/   *)
(* src/account-manager.ts) driving the batch executor it imports from      *)
(* ../utils/batch-processor, and the request rate limiter of TestApiClient *)
(* (api-verification/utils/api-client.ts).                                 *)
(*                                                                         *)
(* The batch executor's source is not part of the tree; its scheduling     *)
(* (queue, worker pool, retry policy, progress tracker, cancellation) is   *)
(* modelled from the written specification, sections 4 and 5. Everything   *)
(* AccountManager and TestApiClient do is modelled from their code.        *)
(* Two specifications: Spec (one bulk operation of an AccountManager with  *)
(* a progress callback set) and RateSpec (concurrent requests through one  *)
(* TestApiClient).                                                         *)
(***************************************************************************)
EXTENDS Integers, Sequences, FiniteSets, TLC

(* ---------------------------------------------------------------------- *)
(* Bounds of the model                                                    *)
(* ---------------------------------------------------------------------- *)
MaxItems == 3

MaxRetries == 2

\* rate limiter: concurrent callers of TestApiClient.request

MaxCallers == 3

\* rate limiter: config.rateLimiting.requestDelay, in clock ticks
RequestDelay == 2

\* rate limiter: the clock value at construction (Date.now() is far from 0)
StartTime == 4

\* rate limiter: how many ticks the clock is followed
Horizon == 4

MaxTime == StartTime + Horizon

\* TestApiClient: config.retries, from testConfig.retries
Retries == 3

\* mail worker: rows the mailboxes table can hold
MaxRows == 1

\* mail worker: rows the users table can hold
MaxUsers == 2

\* mail worker: messages received in all
MaxMessages == 1

\* mail worker: tokens issued in all
MaxTokens == 1

\* mail worker: how far the clock (Date.now() / 1000) is followed
MaxClock == 1

\* mail worker: seconds from the issue of a token to its exp (a token issued
\* at the start expires when the clock has been followed to its end)
TokenLifetime == MaxClock

\* database.js: calls in flight at a time
MaxCalls == 2

\* address generation: the values Math.random() can give one item
MaxRandom == 2

\* address generation: how far Date.now() moves while the addresses are made
MaxStamp == 1

VARIABLES
    config,        \* AccountManager.config (batchSize, concurrency, maxRetries, retryDelay)
    op,            \* which bulk operation is running: "none", "create", "validate", "pattern"
    phase,         \* position in the bulk operation: "idle", "running", "returned"
    options,       \* the argument of the bulk operation (count, batchSize, concurrency)
    permanent,     \* the tasks whose remote call can never succeed
    tasks,         \* the task list handed to processBatches (ids, in input order)
    runOpts,       \* the third argument of processBatches: batchSize, concurrency
    queue,         \* executor: pending tasks, in dispatch order
    status,        \* executor: per task Pending/Running/Retrying/Succeeded/Failed
    attempts,      \* per task: worker-function invocations started so far
    failures,      \* per task: remote calls (createAccount / getToken) that failed
    delays,        \* executor: per task, the backoff delays of its retries, in order
    batches,       \* executor: per-batch results {successful, failed}
    cancelSignal,  \* executor: the external cancellation signal was raised
    tracker,       \* executor: ProgressTracker counters
    context,       \* BulkOperationContext of the running operation
    lastEvent,     \* the last BulkOperationEvent handed to the progress callback
    result,        \* the value the bulk operation returned
    coalesced,     \* executor: the snapshot of some settlement was held back
    now,           \* rate limiter: the clock (Date.now())
    lastRequestTime, \* TestApiClient.lastRequestTime
    requestCount,  \* TestApiClient.requestCount
    callers,       \* rate limiter: per caller, position in request()/enforceRateLimit()
    wakeAt,        \* rate limiter: per caller, the time its wait() timer fires
    dispatched,    \* rate limiter: start times of the requests dispatched, in order
    fetches,       \* TestApiClient: per caller, fetch() calls made for its request
    reported,      \* TestApiClient: per caller, how its last request() ended
    users,         \* mail worker: the users table (username, password_hash), id = index
    mailboxes,     \* mail worker: the mailboxes table (address), id = index
    messages,      \* mail worker: the messages table (mailbox_id, is_read), id = index
    tokens,        \* mail worker: the payloads of the tokens createJwt signed
    clock,         \* mail worker: Math.floor(Date.now() / 1000)
    request,       \* mail worker: the last request fetch() was called with
    response,      \* mail worker: the Response it was answered with
    generated,     \* address generation: the last list of addresses made, and by what
    calls,         \* database.js: per concurrent call, its function, position and locals
    user_mailboxes \* mail worker: the user_mailboxes table (user_id, mailbox_id, is_pinned)

bulkVars == <<config, op, phase, options, permanent, tasks, runOpts, queue, status,
              attempts, failures, delays, batches, cancelSignal, tracker, context,
              lastEvent, result, coalesced>>

rateVars == <<now, lastRequestTime, requestCount, callers, wakeAt, dispatched,
              fetches, reported>>

vars == <<config, op, phase, options, permanent, tasks, runOpts, queue, status,
          attempts, failures, delays, batches, cancelSignal, tracker, context,
          lastEvent, result, coalesced,
          now, lastRequestTime, requestCount, callers, wakeAt, dispatched,
          fetches, reported,
          users, mailboxes, messages, tokens, clock, request, response,
          generated, calls, user_mailboxes>>

workerVars == <<users, mailboxes, messages, tokens, clock, request, response>>

dbVars == <<calls, user_mailboxes>>

(* ---------------------------------------------------------------------- *)
(* Helpers                                                                *)
(* ---------------------------------------------------------------------- *)
RECURSIVE SumSeq(_)
SumSeq(s) == IF s = <<>> THEN 0 ELSE Head(s) + SumSeq(Tail(s))

RECURSIVE Flatten(_)
Flatten(ss) == IF ss = <<>> THEN <<>> ELSE Head(ss) \o Flatten(Tail(ss))

Count(s, x) == Cardinality({ k \in 1..Len(s) : s[k] = x })

Min(a, b) == IF a < b THEN a ELSE b

Max(a, b) == IF a > b THEN a ELSE b

\* a || b of JavaScript on numbers: 0 is falsy
OrDefault(a, b) == IF a = 0 THEN b ELSE a

\* opts.k || d: an absent field is undefined, which is falsy too
OptionOr(opts, k, d) == IF k \in DOMAIN opts THEN OrDefault(opts[k], d) ELSE d

\* { ...base, ...over } for records: fields of over win
Spread(base, over) ==
    [k \in (DOMAIN base) \cup (DOMAIN over) |->
        IF k \in DOMAIN over THEN over[k] ELSE base[k]]

(* ---------------------------------------------------------------------- *)
(* AccountManager: configuration                                          *)
(* ---------------------------------------------------------------------- *)
\* DEFAULT_CONFIG: the fields the scheduling reads
DEFAULT_CONFIG ==
    [batchSize |-> 20, concurrency |-> 3, maxRetries |-> 3, retryDelay |-> 2000]

\* the Partial<BulkOperationConfig> values given to the constructor
ConfigOverrides ==
    { [concurrency |-> 2, maxRetries |-> r] : r \in 0..MaxRetries } \cup
    { [concurrency |-> 0, maxRetries |-> 0] }

\* constructor: this.config = { ...DEFAULT_CONFIG, ...config }
NewAccountManager(override) == Spread(DEFAULT_CONFIG, override)

\* batchSize and concurrency values below 1 a caller of createBulkAccounts
\* can give
BelowOnePairs == {<<0 - 1, 0>>, <<0, 0 - 1>>}

\* the options of createBulkAccounts: count, and the optional batchSize and
\* concurrency (the values below 1 are drawn for the shorter runs)
CreateOptions ==
    { [count |-> n] : n \in 0..MaxItems } \cup
    { [count |-> n, batchSize |-> 2, concurrency |-> 1] : n \in 0..MaxItems } \cup
    { [count |-> n, batchSize |-> bc[1], concurrency |-> bc[2]] :
        n \in 0..(MaxItems - 1), bc \in BelowOnePairs }

\* which of n tasks meet a permanent failure: the address of the first is
\* refused by createAccount every time (validation: its account has no
\* password)
PermanentChoices(n) == { s \in SUBSET {1} : s \subseteq 1..n }

\* generateEmailAddresses, default pattern `${emailPrefix}-${timestamp}-${i}@${domain}`:
\* one address per i in 1..count; an address is written as its index i
generateEmailAddresses(count) == [i \in 1..count |-> i]

\* tasks = emailAddresses.map(email => ({ id: email, data: ... }))
CreateTasks(opts) == generateEmailAddresses(opts.count)

\* ValidateTasks with one task too many (a loop bound off by one)
ValidateTasksOffByOne(n) == [i \in 1..(n + 1) |-> i]

\* tasks = accounts.map(account => ({ id: account.id, data: account })), for
\* the accounts 1..n
ValidateTasks(n) == [i \in 1..n |-> i]

\* createAccountsWithPattern: tasks = emails.map(email => ({ id: email, ... }))
\* for the pattern '{index}' (the address of item i written as i)
PatternTasks(n) == [i \in 1..n |-> i]

(* ---------------------------------------------------------------------- *)
(* AccountManager: the addresses that become the task identifiers         *)
(* ---------------------------------------------------------------------- *)
\* a piece of a pattern or of an address: a kind and a number. Literal text
\* and placeholders carry 0; a value put in for a placeholder carries the
\* index, the timestamp or the random draw
Literal(text) == <<text, 0>>

IndexPlaceholder == <<"{index}", 0>>

TimestampPlaceholder == <<"{timestamp}", 0>>

RandomPlaceholder == <<"{random}", 0>>

\* pattern.replace(placeholder, value): the first occurrence only
ReplaceFirst(pattern, placeholder, value) ==
    LET at == { k \in 1..Len(pattern) : pattern[k] = placeholder }
    IN  IF at = {} THEN pattern
        ELSE [pattern EXCEPT ![CHOOSE k \in at : \A j \in at : k <= j] = value]

\* pattern.replace('{index}', i).replace('{timestamp}', t).replace('{random}', r)
FromPattern(pattern, i, t, r) ==
    ReplaceFirst(
        ReplaceFirst(
            ReplaceFirst(pattern, IndexPlaceholder, <<"index", i>>),
            TimestampPlaceholder, <<"timestamp", t>>),
        RandomPlaceholder, <<"random", r>>)

\* `${options.emailPrefix}-${timestamp}-${i}@${options.domain}`
FromPrefix(i, t) ==
    << Literal("prefix"), Literal("-"), <<"timestamp", t>>, Literal("-"),
       <<"index", i>>, Literal("@domain") >>

\* the patterns a caller can give: no placeholder, one of the three, a
\* timestamp with a random part, {index} twice, and the empty pattern
EmailPatterns ==
    { << Literal("u") >>,
      << Literal("u"), IndexPlaceholder >>,
      << Literal("u"), TimestampPlaceholder >>,
      << Literal("u"), RandomPlaceholder >>,
      << TimestampPlaceholder, RandomPlaceholder >>,
      << IndexPlaceholder, IndexPlaceholder >>,
      << >> }

\* the random draws of the items, and the Date.now() readings of a loop
RandomDraws(n) == [1..n -> 1..MaxRandom]

ClockReadings(n) ==
    { ts \in [1..n -> 0..MaxStamp] : \A i \in 1..n : \A j \in 1..n : i <= j => ts[i] <= ts[j] }

\* generateEmailAddresses(options) with Date.now() = timestamp read once and
\* the draws of Math.random(); an empty emailPattern is falsy
EmailsOfOptions(opts, timestamp, randoms) ==
    [i \in 1..opts.count |->
        IF "emailPattern" \in DOMAIN opts /\ opts.emailPattern # <<>>
        THEN FromPattern(opts.emailPattern, i, timestamp, randoms[i])
        ELSE FromPrefix(i, timestamp)]

\* the emails of createAccountsWithPattern: Date.now() is read per item
EmailsOfPattern(pattern, count, stamps, randoms) ==
    [i \in 1..count |-> FromPattern(pattern, i, stamps[i], randoms[i])]

NothingGenerated == [by |-> "none", pattern |-> <<>>, emails |-> <<>>]

\* CreateRunOptions with the per-call options dropped (the manager's
\* configuration is passed on whatever the caller asked for)
CreateRunOptionsConfigOnly(cfg, opts) ==
    [batchSize |-> cfg.batchSize, concurrency |-> cfg.concurrency]

\* the third argument of processBatches in createBulkAccounts
CreateRunOptions(cfg, opts) ==
    [batchSize   |-> OptionOr(opts, "batchSize", cfg.batchSize),
     concurrency |-> OptionOr(opts, "concurrency", cfg.concurrency)]

\* the third argument of processBatches in validateBulkAccounts and in
\* createAccountsWithPattern
ValidateRunOptions(cfg) ==
    [batchSize |-> cfg.batchSize, concurrency |-> cfg.concurrency]

\* createOperationContext with completed initialised to total
createOperationContextFull(type, total) ==
    [operationType |-> type,
     progress |-> [currentStep |-> "initializing", completed |-> total,
                   total |-> total, errorCount |-> 0],
     errors |-> <<>>,
     cancelled |-> FALSE]

\* createOperationContext(type, total)
createOperationContext(type, total) ==
    [operationType |-> type,
     progress |-> [currentStep |-> "initializing", completed |-> 0,
                   total |-> total, errorCount |-> 0],
     errors |-> <<>>,
     cancelled |-> FALSE]

\* emitProgress(type, context, data): the event the callback receives (a
\* progress callback is set)
emitProgress(type, ctx) == [type |-> type, progress |-> ctx.progress]

\* updateProgress with the spread the wrong way round: the old fields win
updateProgressStale(ctx, update) ==
    [ctx EXCEPT !.progress = Spread(update, ctx.progress)]

\* updateProgress: context.progress = { ...context.progress, ...update }
updateProgress(ctx, update) ==
    [ctx EXCEPT !.progress = Spread(ctx.progress, update)]

(* ---------------------------------------------------------------------- *)
(* The worker functions AccountManager hands to the executor              *)
(* ---------------------------------------------------------------------- *)
\* what the remote call (createAccount / getToken) can do
ApiOutcomes == {"ok", "transient", "permanent"}

\* what the executor can see of a finished invocation: resolved, rejected,
\* or rejected with the error marked non-retryable
WorkerOutcomes == {"resolved", "rejected", "rejected-terminal"}

\* createSingleAccount with a catch that does not rethrow
createSingleAccountSwallow(api) == "resolved"

\* createSingleAccount awaiting a call that never settles
createSingleAccountNeverSettles(api) == "pending"

\* createSingleAccount: the account, or every error rethrown as a new Error
createSingleAccount(api) == IF api = "ok" THEN "resolved" ELSE "rejected"

\* validateSingleAccount: throws without a password, else as getToken does;
\* every error rethrown as a new Error
validateSingleAccount(hasPassword, api) ==
    IF ~hasPassword THEN "rejected"
    ELSE IF api = "ok" THEN "resolved" ELSE "rejected"

WorkerFn(operation, hasPassword, api) ==
    IF operation # "validate" THEN createSingleAccount(api)
    ELSE validateSingleAccount(hasPassword, api)

(* ---------------------------------------------------------------------- *)
(* The batch executor (processBatches)                                    *)
(* ---------------------------------------------------------------------- *)
\* values below 1 are clamped to 1
Clamp(v) == Max(1, v)

Limit == Clamp(runOpts.concurrency)

BatchOf(i) == ((i - 1) \div Clamp(runOpts.batchSize)) + 1

NumBatches(n, bsz) == (n + Clamp(bsz) - 1) \div Clamp(bsz)

Items == 1..Len(tasks)

\* Running with the tasks in their backoff wait counted as holding a slot
RunningOrRetrying == { i \in Items : status[i] \in {"Running", "Retrying"} }

Running == { i \in Items : status[i] = "Running" }

Settled == { i \in Items : status[i] \in {"Succeeded", "Failed"} }

\* RetryPolicy.shouldRetry: retry while attempt <= maxRetries
shouldRetry(attempt, maxRetries) == attempt <= maxRetries

\* a fixed delay: no backoff
delayForFixed(attempt, retryDelay) == retryDelay

\* RetryPolicy.delayFor: retryDelay * 2^(attempt-1)
delayFor(attempt, retryDelay) == retryDelay * 2^(attempt - 1)

\* the invocation finished with an error
Rejected(outcome) == outcome \in {"rejected", "rejected-terminal"}

\* an error marked non-retryable bypasses the policy
RetryDecision(outcome, attempt, maxRetries) ==
    outcome = "rejected" /\ shouldRetry(attempt, maxRetries)

\* the run is over: every task settled, or cancelled with nothing in flight
ExecutorDone ==
    \/ Settled = Items
    \/ cancelSignal /\ Running = {}

\* no snapshot is ever held back
NothingUndelivered == FALSE

\* the tracker holds a snapshot newer than the last one handed to onProgress
Undelivered == tracker.completed # context.progress.completed

\* ProgressTracker.onTaskSettled: the snapshot handed to onProgress
Snapshot(t) ==
    [currentStep |-> "processing", completed |-> t.completed,
     total |-> t.total, errorCount |-> t.errorCount]

NoResult == [kind |-> "none"]

NoEvent == [type |-> "none"]

(* ---------------------------------------------------------------------- *)
(* The mail worker (cloudflare-provider/worker.ts, database.js): strings   *)
(* ---------------------------------------------------------------------- *)
\* a string is the sequence of its characters
Chars(s) == { s[k] : k \in 1..Len(s) }

\* s.indexOf(ch): the 0-based position of the first ch, -1 when there is none
IndexOf(s, ch) ==
    IF ch \in Chars(s)
    THEN (CHOOSE k \in 1..Len(s) : s[k] = ch /\ \A j \in 1..(k - 1) : s[j] # ch) - 1
    ELSE 0 - 1

\* s.slice(0, to) and s.slice(from), 0-based
SliceTo(s, to) == SubSeq(s, 1, to)

SliceFrom(s, from) == SubSeq(s, from + 1, Len(s))

\* s.split(ch)
RECURSIVE Split(_, _)
Split(s, ch) ==
    LET at == IndexOf(s, ch)
    IN  IF at < 0 THEN <<s>>
        ELSE <<SliceTo(s, at)>> \o Split(SliceFrom(s, at + 1), ch)

RECURSIVE TrimStart(_)
TrimStart(s) == IF s # <<>> /\ Head(s) = " " THEN TrimStart(Tail(s)) ELSE s

RECURSIVE TrimEnd(_)
TrimEnd(s) ==
    IF s # <<>> /\ s[Len(s)] = " " THEN TrimEnd(SubSeq(s, 1, Len(s) - 1)) ELSE s

\* s.trim()
Trim(s) == TrimEnd(TrimStart(s))

\* s.toLowerCase(), over the letters the addresses below use
ToLowerCase(s) == [k \in 1..Len(s) |-> IF s[k] = "A" THEN "a" ELSE s[k]]

\* the value of a destructured array element that is not there
Undefined == <<"undefined">>

\* env.MAIL_DOMAIN split into its domains: one domain, d.c
AllowedDomains == { <<"d", ".", "c">> }

\* the address of the account-creation test, on the configured domain
validEmail == <<"a", "@", "d", ".", "c">>

\* the invalidEmails of the test, on the configured domain: 'invalid-email',
\* '@domain.com', 'user@', 'user@domain', '', 'user space@domain.com'
invalidEmails ==
    { <<"a", "d", ".", "c">>,
      <<"@", "d", ".", "c">>,
      <<"a", "@">>,
      <<"a", "@", "d">>,
      <<>>,
      <<"a", " ", "a", "@", "d", ".", "c">> }

\* further addresses a client can send: another letter case, a second '@',
\* a domain that is not configured
otherEmails ==
    { <<"A", "@", "d", ".", "c">>,
      <<"a", "@", "d", ".", "c", "@", "x", ".", "y">>,
      <<"a", "@", "x", ".", "y">> }

RequestAddresses == {validEmail} \cup invalidEmails \cup otherEmails

\* the passwords a client can send ("" is no password)
Passwords == {"p", "q", ""}

\* sha256Hex(password)
sha256Hex(text) == <<"sha256", text>>

\* errorResponse(message, status)
errorResponse(message, st) == [status |-> st, error |-> message, body |-> [none |-> TRUE]]

\* jsonResponse(data, status)
jsonResponse(data, st) == [status |-> st, error |-> "", body |-> data]

\* the Workers runtime's answer when fetch() rejects: the promise a handler
\* returned is not awaited inside the try, so its rejection is not caught
UncaughtException == [status |-> 500, error |-> "exception", body |-> [none |-> TRUE]]

\* the local part and the domain getOrCreateMailboxId stores for an address
LocalPartOf(normalized) ==
    LET at == IndexOf(normalized, "@")
    IN  IF at > 0 /\ at < Len(normalized) - 1 THEN SliceTo(normalized, at) ELSE <<>>

DomainOf(normalized) ==
    LET at == IndexOf(normalized, "@")
    IN  IF at > 0 /\ at < Len(normalized) - 1 THEN SliceFrom(normalized, at + 1)
        ELSE <<>>

\* the rows of mbs with this address
MailboxIds(mbs, normalized) == { k \in 1..Len(mbs) : mbs[k].address = normalized }

\* getOrCreateMailboxId(db, address): throws, or the id and the table after it
getOrCreateMailboxId(mbs, address) ==
    LET normalized == ToLowerCase(Trim(address))
        local_part == LocalPartOf(normalized)
        domain == DomainOf(normalized)
    IN  IF normalized = <<>> \/ local_part = <<>> \/ domain = <<>>
        THEN [threw |-> TRUE, id |-> 0, mailboxes |-> mbs]
        ELSE IF MailboxIds(mbs, normalized) # {}
        THEN [threw |-> FALSE, id |-> CHOOSE k \in MailboxIds(mbs, normalized) : TRUE,
              mailboxes |-> mbs]
        ELSE [threw |-> FALSE, id |-> Len(mbs) + 1,
              mailboxes |-> Append(mbs, [address |-> normalized, domain |-> domain])]

\* getMailboxIdByAddress(db, address): the id, or 0 for null
getMailboxIdByAddress(mbs, address) ==
    LET normalized == ToLowerCase(Trim(address))
    IN  IF normalized = <<>> \/ MailboxIds(mbs, normalized) = {} THEN 0
        ELSE CHOOSE k \in MailboxIds(mbs, normalized) : TRUE

\* the users table: mailbox_limit INTEGER NOT NULL DEFAULT 10
DefaultMailboxLimit == 10

\* SELECT id FROM users WHERE username = ?
UserIds(us, username) == { k \in 1..Len(us) : us[k].username = username }

\* a token payload nobody signed
NoPayload == [address |-> <<>>, mailboxId |-> 0, userId |-> 0, exp |-> 0]

\* the Authorization header absent
NoHeader == [scheme |-> "none", parts |-> 0, signed |-> FALSE, payload |-> NoPayload]

\* the Authorization headers a client can send: none, a
\* Bearer token that is not three parts, a three-part token signed with
\* another key (whatever its payload says), a token the worker signed
AuthHeaders(issued, forged) ==
    { NoHeader,
      [scheme |-> "Bearer", parts |-> 2, signed |-> FALSE, payload |-> NoPayload] }
    \cup { [scheme |-> "Bearer", parts |-> 3, signed |-> FALSE, payload |-> p] : p \in forged }
    \cup { [scheme |-> "Bearer", parts |-> 3, signed |-> TRUE, payload |-> p] : p \in issued }

Unverified == [valid |-> FALSE, payload |-> NoPayload]

\* verifyBearerToken without the comparison of exp with the clock
verifyBearerTokenNoExpiry(authHeader, t) ==
    IF authHeader.scheme # "Bearer" THEN Unverified
    ELSE IF authHeader.parts # 3 THEN Unverified
    ELSE IF ~authHeader.signed THEN Unverified
    ELSE [valid |-> TRUE, payload |-> authHeader.payload]

\* verifyBearerToken(authHeader, secret) at time t: false, or the payload
verifyBearerToken(authHeader, t) ==
    IF authHeader.scheme # "Bearer" THEN Unverified
    ELSE IF authHeader.parts # 3 THEN Unverified
    ELSE IF ~authHeader.signed THEN Unverified
    ELSE IF authHeader.payload.exp <= t THEN Unverified
    ELSE [valid |-> TRUE, payload |-> authHeader.payload]

\* the invocation the worker has not had yet, and its answer
NoRequest ==
    [endpoint |-> "none", auth |-> NoHeader, address |-> <<>>, hasPassword |-> FALSE,
     password |-> "",
     existed |-> FALSE, usersBefore |-> 0, mailboxesBefore |-> 0]

NoResponse == [status |-> 0, error |-> "", body |-> [none |-> TRUE]]

(* ---------------------------------------------------------------------- *)
(* Initial state: no bulk operation yet, a TestApiClient just constructed, *)
(* a mail worker with an empty database                                   *)
(* ---------------------------------------------------------------------- *)
Callers == 1..MaxCallers

CallIds == 1..MaxCalls

\* a call that has not been made
NoCall ==
    [fn |-> "none", pc |-> "idle", address |-> <<>>, uid |-> 0, mailboxId |-> 0,
     pinned |-> FALSE, outcome |-> "none"]

Init ==
    /\ config = DEFAULT_CONFIG
    /\ op = "none"
    /\ phase = "idle"
    /\ options = [count |-> 0]
    /\ permanent = {}
    /\ tasks = <<>>
    /\ runOpts = [batchSize |-> 0, concurrency |-> 0]
    /\ queue = <<>>
    /\ status = <<>>
    /\ attempts = <<>>
    /\ failures = <<>>
    /\ delays = <<>>
    /\ batches = <<>>
    /\ cancelSignal = FALSE
    /\ tracker = [completed |-> 0, total |-> 0, errorCount |-> 0]
    /\ context = createOperationContext("none", 0)
    /\ lastEvent = NoEvent
    /\ result = NoResult
    /\ coalesced = FALSE
    /\ now = StartTime
    /\ lastRequestTime = 0
    /\ requestCount = 0
    /\ callers = [c \in Callers |-> "idle"]
    /\ wakeAt = [c \in Callers |-> 0]
    /\ dispatched = <<>>
    /\ fetches = [c \in Callers |-> 0]
    /\ reported = [c \in Callers |-> "none"]
    /\ users = <<>>
    /\ mailboxes = <<>>
    /\ messages = <<>>
    /\ tokens = {}
    /\ clock = 0
    /\ request = NoRequest
    /\ response = NoResponse
    /\ generated = NothingGenerated
    /\ calls = [c \in CallIds |-> NoCall]
    /\ user_mailboxes = {}

(* ---------------------------------------------------------------------- *)
(* Bulk operations                                                        *)
(* ---------------------------------------------------------------------- *)
\* processBatches is entered with the task list ts and the options ro
ProcessBatches(ts, ro) ==
    /\ tasks' = ts
    /\ runOpts' = ro
    /\ queue' = [i \in 1..Len(ts) |-> i]
    /\ status' = [i \in 1..Len(ts) |-> "Pending"]
    /\ attempts' = [i \in 1..Len(ts) |-> 0]
    /\ failures' = [i \in 1..Len(ts) |-> 0]
    /\ delays' = [i \in 1..Len(ts) |-> <<>>]
    /\ batches' = [b \in 1..NumBatches(Len(ts), ro.batchSize) |->
                      [successful |-> <<>>, failed |-> <<>>]]
    /\ tracker' = [completed |-> 0, total |-> Len(ts), errorCount |-> 0]
    /\ cancelSignal' = FALSE

\* new AccountManager(override).createBulkAccounts(o), up to the call of
\* processBatches
CreateBulkAccounts ==
    /\ phase = "idle"
    /\ \E override \in ConfigOverrides : config' = NewAccountManager(override)
    /\ \E o \in CreateOptions :
         LET ctx == createOperationContext("account-creation", o.count)
         IN  /\ op' = "create"
             /\ options' = o
             /\ permanent' \in PermanentChoices(o.count)
             /\ context' = ctx
             /\ lastEvent' = emitProgress("started", ctx)
             /\ ProcessBatches(CreateTasks(o), CreateRunOptions(config', o))
    /\ phase' = "running"
    /\ UNCHANGED result
    /\ UNCHANGED coalesced
    /\ UNCHANGED <<rateVars, workerVars, generated, dbVars>>

\* new AccountManager(override).validateBulkAccounts(accounts), up to the
\* call of processBatches
ValidateBulkAccounts ==
    /\ phase = "idle"
    /\ \E override \in ConfigOverrides : config' = NewAccountManager(override)
    /\ \E n \in 0..MaxItems :
         LET ctx == createOperationContext("validation", n)
         IN  /\ op' = "validate"
             /\ options' = [count |-> n]
             /\ permanent' \in PermanentChoices(n)
             /\ context' = ctx
             /\ lastEvent' = emitProgress("started", ctx)
             /\ ProcessBatches(ValidateTasks(n), ValidateRunOptions(config'))
    /\ phase' = "running"
    /\ UNCHANGED result
    /\ UNCHANGED coalesced
    /\ UNCHANGED <<rateVars, workerVars, generated, dbVars>>

\* new AccountManager(override).createAccountsWithPattern(pattern, count,
\* password), up to the call of processBatches, for a pattern with {index}
\* in it: it emits no event of its own
CreateAccountsWithPattern ==
    /\ phase = "idle"
    /\ \E override \in ConfigOverrides : config' = NewAccountManager(override)
    /\ \E n \in 0..MaxItems :
         /\ op' = "pattern"
         /\ options' = [count |-> n]
         /\ permanent' \in PermanentChoices(n)
         /\ context' = createOperationContext("account-creation", n)
         /\ ProcessBatches(PatternTasks(n), ValidateRunOptions(config'))
    /\ phase' = "running"
    /\ UNCHANGED <<lastEvent, result>>
    /\ UNCHANGED coalesced
    /\ UNCHANGED <<rateVars, workerVars, generated, dbVars>>

\* Dispatch reading the head of the queue without removing it
DispatchWithoutDequeue ==
    /\ phase = "running"
    /\ ~cancelSignal
    /\ queue # <<>>
    /\ Cardinality(Running) < Limit
    /\ LET i == Head(queue)
       IN  /\ status' = [status EXCEPT ![i] = "Running"]
           /\ attempts' = [attempts EXCEPT ![i] = @ + 1]
    /\ UNCHANGED <<config, op, phase, options, permanent, tasks, runOpts, queue, failures,
                   delays, batches, cancelSignal, tracker, context, lastEvent, result>>
    /\ UNCHANGED coalesced
    /\ UNCHANGED <<rateVars, workerVars, generated, dbVars>>

\* the pool starts the next pending task: one worker-function invocation
Dispatch ==
    /\ phase = "running"
    /\ ~cancelSignal
    /\ queue # <<>>
    /\ Cardinality(Running) < Limit
    /\ LET i == Head(queue)
       IN  /\ queue' = Tail(queue)
           /\ status' = [status EXCEPT ![i] = "Running"]
           /\ attempts' = [attempts EXCEPT ![i] = @ + 1]
    /\ UNCHANGED <<config, op, phase, options, permanent, tasks, runOpts, failures,
                   delays, batches, cancelSignal, tracker, context, lastEvent, result>>
    /\ UNCHANGED coalesced
    /\ UNCHANGED <<rateVars, workerVars, generated, dbVars>>

\* a task reached a terminal state: counters, onProgress, updateProgress, event
Settle(i, newStatus, newBatches) ==
    LET t == [tracker EXCEPT !.completed = @ + 1,
                             !.errorCount = IF newStatus = "Failed" THEN @ + 1 ELSE @]
        ctx == updateProgress(context, Snapshot(t))
    IN  /\ status' = [status EXCEPT ![i] = newStatus]
        /\ batches' = newBatches
        /\ tracker' = t
        /\ context' = ctx
        /\ lastEvent' = emitProgress("progress", ctx)

\* the remote call of one invocation failed (or was not made for want of a
\* password)
CallFailed(operation, hasPassword, api) ==
    IF operation # "validate" THEN api # "ok" ELSE ~hasPassword \/ api # "ok"

\* what one invocation of the worker function for task i can meet: whether
\* the account has a password, and what the remote call does
Calls(operation, i) ==
    IF i \in permanent
    THEN IF operation # "validate" THEN { <<TRUE, "permanent">> }
         ELSE { <<FALSE, api>> : api \in ApiOutcomes }
    ELSE { <<TRUE, api>> : api \in ApiOutcomes \ {"permanent"} }

Observed(i, call) ==
    [failures EXCEPT ![i] = @ + IF CallFailed(op, call[1], call[2]) THEN 1 ELSE 0]

\* the worker function of a running task resolves
WorkerResolves ==
    /\ phase = "running"
    /\ \E i \in Running : \E call \in Calls(op, i) :
         /\ WorkerFn(op, call[1], call[2]) = "resolved"
         /\ failures' = Observed(i, call)
         /\ Settle(i, "Succeeded",
                   [batches EXCEPT ![BatchOf(i)].successful = Append(@, tasks[i])])
    /\ UNCHANGED <<config, op, phase, options, permanent, tasks, runOpts, queue,
                   attempts, delays, cancelSignal, result>>
    /\ UNCHANGED coalesced
    /\ UNCHANGED <<rateVars, workerVars, generated, dbVars>>

\* the worker function of a running task rejects and the policy retries it
WorkerRejectsRetry ==
    /\ phase = "running"
    /\ \E i \in Running : \E call \in Calls(op, i) :
         /\ Rejected(WorkerFn(op, call[1], call[2]))
         /\ RetryDecision(WorkerFn(op, call[1], call[2]), attempts[i], config.maxRetries)
         /\ failures' = Observed(i, call)
         /\ delays' = [delays EXCEPT ![i] =
                          Append(@, delayFor(attempts[i], config.retryDelay))]
         /\ status' = [status EXCEPT ![i] = "Retrying"]
    /\ UNCHANGED <<config, op, phase, options, permanent, tasks, runOpts, queue,
                   attempts, batches, cancelSignal, tracker, context, lastEvent, result>>
    /\ UNCHANGED coalesced
    /\ UNCHANGED <<rateVars, workerVars, generated, dbVars>>

\* the worker function of a running task rejects and it is not retried: the
\* retries are used up, or the error is marked non-retryable
WorkerRejectsFinal ==
    /\ phase = "running"
    /\ \E i \in Running : \E call \in Calls(op, i) :
         /\ Rejected(WorkerFn(op, call[1], call[2]))
         /\ ~RetryDecision(WorkerFn(op, call[1], call[2]), attempts[i], config.maxRetries)
         /\ failures' = Observed(i, call)
         /\ Settle(i, "Failed",
                   [batches EXCEPT ![BatchOf(i)].failed =
                       Append(@, [item |-> tasks[i],
                                  retryAttempts |-> attempts[i] - 1])])
    /\ UNCHANGED <<config, op, phase, options, permanent, tasks, runOpts, queue,
                   attempts, delays, cancelSignal, result>>
    /\ UNCHANGED coalesced
    /\ UNCHANGED <<rateVars, workerVars, generated, dbVars>>

\* the backoff delay of a retrying task is over: it is pending again
RetryReady ==
    /\ phase = "running"
    /\ \E i \in Items :
         /\ status[i] = "Retrying"
         /\ status' = [status EXCEPT ![i] = "Pending"]
         /\ queue' = Append(queue, i)
    /\ UNCHANGED <<config, op, phase, options, permanent, tasks, runOpts, attempts,
                   failures, delays, batches, cancelSignal, tracker, context, lastEvent,
                   result>>
    /\ UNCHANGED coalesced
    /\ UNCHANGED <<rateVars, workerVars, generated, dbVars>>

\* the external cancellation signal is raised during the run
Cancel ==
    /\ phase = "running"
    /\ ~cancelSignal
    /\ Settled # Items
    /\ cancelSignal' = TRUE
    /\ UNCHANGED <<config, op, phase, options, permanent, tasks, runOpts, queue,
                   status, attempts, failures, delays, batches, tracker, context,
                   lastEvent, result>>
    /\ UNCHANGED coalesced
    /\ UNCHANGED <<rateVars, workerVars, generated, dbVars>>

\* the compilation reading only the first batch of the results
CompileSuccessfulFirstBatch(bs) == IF bs = <<>> THEN <<>> ELSE bs[1].successful

CompileFailedFirstBatch(bs) == IF bs = <<>> THEN <<>> ELSE bs[1].failed

\* the compilation rebuilding the failure records without their retry count
CompileFailedNoRetryCount(bs) ==
    LET all == Flatten([b \in 1..Len(bs) |-> bs[b].failed])
    IN  [k \in 1..Len(all) |-> [item |-> all[k].item, retryAttempts |-> 0]]

\* for (const batch of results) { successful.push(...); failed.push(...) }
CompileSuccessful(bs) == Flatten([b \in 1..Len(bs) |-> bs[b].successful])

CompileFailed(bs) == Flatten([b \in 1..Len(bs) |-> bs[b].failed])

\* calculateMetrics: the counts it derives (times left out)
calculateMetrics(ctx, successCount, failureCount) ==
    [totalRetries |-> SumSeq([k \in 1..Len(ctx.errors) |-> ctx.errors[k].retryAttempts])]

\* createSummary: the counts it derives (rates and times left out)
createSummary(attempted, successful, failed) ==
    [totalAttempted |-> attempted, successCount |-> successful,
     failureCount |-> failed]

\* the BulkAccountResult createBulkAccounts returns
CreateResult(ctx, bs) ==
    LET successful == CompileSuccessful(bs)
        failed == CompileFailed(bs)
    IN  [kind |-> "BulkAccountResult",
         successful |-> successful,
         failed |-> failed,
         metrics |-> calculateMetrics(ctx, Len(successful), Len(failed)),
         summary |-> createSummary(ctx.progress.total, Len(successful), Len(failed))]

\* accounts.find(a => a.id === f.item) over the accounts 1..n
FindAccount(n, item) ==
    IF item \in 1..n THEN item ELSE 0

\* the AccountValidationResult validateBulkAccounts returns
ValidateResult(ctx, n, bs) ==
    LET valid == CompileSuccessful(bs)
        failed == CompileFailed(bs)
        invalid == [k \in 1..Len(failed) |->
                      [account |-> FindAccount(n, failed[k].item), reason |-> "error"]]
    IN  [kind |-> "AccountValidationResult",
         valid |-> valid,
         invalid |-> invalid,
         metrics |-> calculateMetrics(ctx, Len(valid), Len(invalid)),
         summary |-> [totalValidated |-> n, validCount |-> Len(valid),
                      invalidCount |-> Len(invalid),
                      validationRate |-> IF n = 0 THEN "NaN"
                                         ELSE (Len(valid) * 100) \div n]]

\* processBatches returned (the tracker has handed over its final
\* snapshot): the results are compiled and returned; createBulkAccounts and
\* validateBulkAccounts emit 'completed' first
Return ==
    /\ phase = "running"
    /\ ExecutorDone
    /\ ~Undelivered
    /\ result' = IF op # "validate" THEN CreateResult(context, batches)
                 ELSE ValidateResult(context, Len(tasks), batches)
    /\ lastEvent' = IF op = "pattern" THEN lastEvent
                    ELSE emitProgress("completed", context)
    /\ phase' = "returned"
    /\ UNCHANGED <<config, op, options, permanent, tasks, runOpts, queue, status,
                   attempts, failures, delays, batches, cancelSignal, tracker, context>>
    /\ UNCHANGED coalesced
    /\ UNCHANGED <<rateVars, workerVars, generated, dbVars>>

Next ==
    \/ CreateBulkAccounts
    \/ ValidateBulkAccounts
    \/ CreateAccountsWithPattern
    \/ Dispatch
    \/ WorkerResolves
    \/ WorkerRejectsRetry
    \/ WorkerRejectsFinal
    \/ RetryReady
    \/ Cancel
    \/ Return

Spec == Init /\ [][Next]_vars

\* the run under fair scheduling: the pool starts a pending task when it has
\* a free slot, every invocation finishes, every backoff timer fires, and
\* the operation goes on when processBatches has returned. Cancellation and
\* the start of an operation are the caller's and not forced.
FairSpec ==
    /\ Spec
    /\ WF_vars(Dispatch)
    /\ WF_vars(WorkerResolves \/ WorkerRejectsRetry \/ WorkerRejectsFinal)
    /\ WF_vars(RetryReady)
    /\ WF_vars(Return)

(* ---------------------------------------------------------------------- *)
(* createBulkAccounts with a slow progress callback: updates coalesce     *)
(* ---------------------------------------------------------------------- *)
\* a task reached a terminal state while the callback is busy: the counters
\* are updated, the snapshot is held back
SettleUndelivered(i, newStatus, newBatches) ==
    /\ status' = [status EXCEPT ![i] = newStatus]
    /\ batches' = newBatches
    /\ tracker' = [tracker EXCEPT !.completed = @ + 1,
                                  !.errorCount = IF newStatus = "Failed" THEN @ + 1 ELSE @]
    /\ coalesced' = TRUE
    /\ UNCHANGED <<context, lastEvent>>

WorkerResolvesUndelivered ==
    /\ phase = "running"
    /\ \E i \in Running : \E call \in Calls(op, i) :
         /\ WorkerFn(op, call[1], call[2]) = "resolved"
         /\ failures' = Observed(i, call)
         /\ SettleUndelivered(i, "Succeeded",
                   [batches EXCEPT ![BatchOf(i)].successful = Append(@, tasks[i])])
    /\ UNCHANGED <<config, op, phase, options, permanent, tasks, runOpts, queue,
                   attempts, delays, cancelSignal, result>>
    /\ UNCHANGED <<rateVars, workerVars, generated, dbVars>>

WorkerRejectsFinalUndelivered ==
    /\ phase = "running"
    /\ \E i \in Running : \E call \in Calls(op, i) :
         /\ Rejected(WorkerFn(op, call[1], call[2]))
         /\ ~RetryDecision(WorkerFn(op, call[1], call[2]), attempts[i], config.maxRetries)
         /\ failures' = Observed(i, call)
         /\ SettleUndelivered(i, "Failed",
                   [batches EXCEPT ![BatchOf(i)].failed =
                       Append(@, [item |-> tasks[i],
                                  retryAttempts |-> attempts[i] - 1])])
    /\ UNCHANGED <<config, op, phase, options, permanent, tasks, runOpts, queue,
                   attempts, delays, cancelSignal, result>>
    /\ UNCHANGED <<rateVars, workerVars, generated, dbVars>>

\* the callback is free again: the tracker hands over its latest snapshot
DeliverSnapshot ==
    /\ phase = "running"
    /\ Undelivered
    /\ LET ctx == updateProgress(context, Snapshot(tracker))
       IN  /\ context' = ctx
           /\ lastEvent' = emitProgress("progress", ctx)
    /\ UNCHANGED <<config, op, phase, options, permanent, tasks, runOpts, queue, status,
                   attempts, failures, delays, batches, cancelSignal, tracker, result,
                   coalesced>>
    /\ UNCHANGED <<rateVars, workerVars, generated, dbVars>>

CoalescedNext ==
    \/ CreateBulkAccounts
    \/ Dispatch
    \/ WorkerResolves
    \/ WorkerRejectsRetry
    \/ WorkerRejectsFinal
    \/ RetryReady
    \/ Cancel
    \/ Return
    \/ WorkerResolvesUndelivered
    \/ WorkerRejectsFinalUndelivered
    \/ DeliverSnapshot

CoalescedSpec == Init /\ [][CoalescedNext]_vars

(* ---------------------------------------------------------------------- *)
(* TestApiClient.enforceRateLimit, called by concurrent request()s        *)
(* ---------------------------------------------------------------------- *)
\* the request leaves enforceRateLimit at time t and is sent: the last two
\* start times are kept
Dispatched(d, t) == IF Len(d) < 2 THEN Append(d, t) ELSE <<d[2], t>>

\* request(): enforceRateLimit when enough time has passed (no await), then
\* operation() calls fetch in the same turn
RequestPasses ==
    /\ \E c \in Callers :
         /\ callers[c] = "idle"
         /\ ~(now - lastRequestTime < RequestDelay)
         /\ lastRequestTime' = now
         /\ requestCount' = requestCount + 1
         /\ dispatched' = Dispatched(dispatched, now)
         /\ fetches' = [fetches EXCEPT ![c] = 1]
         /\ reported' = [reported EXCEPT ![c] = "none"]
         /\ callers' = [callers EXCEPT ![c] = "inflight"]
    /\ UNCHANGED <<now, wakeAt>>
    /\ UNCHANGED <<bulkVars, workerVars, generated, dbVars>>

\* enforceRateLimit when called too early: await wait(waitTime)
RequestWaits ==
    /\ \E c \in Callers :
         /\ callers[c] = "idle"
         /\ now - lastRequestTime < RequestDelay
         /\ LET waitTime == RequestDelay - (now - lastRequestTime)
            IN  wakeAt' = [wakeAt EXCEPT ![c] = now + waitTime]
         /\ fetches' = [fetches EXCEPT ![c] = 0]
         /\ reported' = [reported EXCEPT ![c] = "none"]
         /\ callers' = [callers EXCEPT ![c] = "waiting"]
    /\ UNCHANGED <<now, lastRequestTime, requestCount, dispatched>>
    /\ UNCHANGED <<bulkVars, workerVars, generated, dbVars>>

\* the timer of wait() fired: lastRequestTime = Date.now(); requestCount++,
\* and operation() calls fetch
Wake ==
    /\ \E c \in Callers :
         /\ callers[c] = "waiting"
         /\ now >= wakeAt[c]
         /\ lastRequestTime' = now
         /\ requestCount' = requestCount + 1
         /\ dispatched' = Dispatched(dispatched, now)
         /\ fetches' = [fetches EXCEPT ![c] = @ + 1]
         /\ callers' = [callers EXCEPT ![c] = "inflight"]
    /\ UNCHANGED <<now, wakeAt, reported>>
    /\ UNCHANGED <<bulkVars, workerVars, generated, dbVars>>

\* fetch answered with response.ok: request() returns the ApiResponse
RequestSucceeds ==
    /\ \E c \in Callers :
         /\ callers[c] = "inflight"
         /\ reported' = [reported EXCEPT ![c] = "ok"]
         /\ callers' = [callers EXCEPT ![c] = "idle"]
    /\ UNCHANGED <<now, lastRequestTime, requestCount, wakeAt, dispatched, fetches>>
    /\ UNCHANGED <<bulkVars, workerVars, generated, dbVars>>

\* fetch threw, timed out or answered !response.ok: operation() throws, and
\* request() lets the error through to its caller
RequestFails ==
    /\ \E c \in Callers :
         /\ callers[c] = "inflight"
         /\ reported' = [reported EXCEPT ![c] = "failed"]
         /\ callers' = [callers EXCEPT ![c] = "idle"]
    /\ UNCHANGED <<now, lastRequestTime, requestCount, wakeAt, dispatched, fetches>>
    /\ UNCHANGED <<bulkVars, workerVars, generated, dbVars>>

\* the clock advances
Tick ==
    /\ now < MaxTime
    /\ now' = now + 1
    /\ UNCHANGED <<lastRequestTime, requestCount, callers, wakeAt, dispatched,
                   fetches, reported>>
    /\ UNCHANGED <<bulkVars, workerVars, generated, dbVars>>

RateNext ==
    \/ RequestPasses
    \/ RequestWaits
    \/ Wake
    \/ RequestSucceeds
    \/ RequestFails
    \/ Tick

RateSpec == Init /\ [][RateNext]_vars

(* ---------------------------------------------------------------------- *)
(* The mail worker: fetch() per endpoint, and the email handler           *)
(* ---------------------------------------------------------------------- *)
\* the invocation as the properties read it: the endpoint, the Authorization
\* header, the address and the password of the body, and what the tables
\* held when it arrived
Request(endpoint, auth, address, password) ==
    [endpoint |-> endpoint, auth |-> auth, address |-> address,
     hasPassword |-> password # "", password |-> password,
     existed |-> UserIds(users, address) # {},
     usersBefore |-> Len(users), mailboxesBefore |-> Len(mailboxes)]

\* const [localPart, domain] = address.split('@')
SplitDomain(address) ==
    LET parts == Split(address, "@")
    IN  IF Len(parts) >= 2 THEN parts[2] ELSE Undefined

\* the account object of the answers
AccountObject(mailboxId, address) ==
    [id |-> ToString(mailboxId), address |-> address,
     isDisabled |-> FALSE, isDeleted |-> FALSE]

\* POST /accounts
handleCreateAccount ==
    /\ \E address \in RequestAddresses, password \in Passwords :
         LET mb == getOrCreateMailboxId(mailboxes, address)
             passwordHash == sha256Hex(password)
             existing == UserIds(users, address)
         IN  /\ request' = Request("POST /accounts", NoHeader, address, password)
             /\ IF address = <<>> \/ password = ""
                THEN /\ response' = errorResponse("Address and password are required", 400)
                     /\ UNCHANGED <<users, mailboxes>>
                ELSE IF SplitDomain(address) \notin AllowedDomains
                THEN /\ response' = errorResponse("Invalid domain", 400)
                     /\ UNCHANGED <<users, mailboxes>>
                ELSE IF mb.threw
                THEN /\ response' = UncaughtException
                     /\ UNCHANGED <<users, mailboxes>>
                ELSE /\ Len(mb.mailboxes) <= MaxRows
                     /\ mailboxes' = mb.mailboxes
                     /\ IF existing # {}
                        THEN users' = [k \in 1..Len(users) |->
                                         IF k \in existing
                                         THEN [users[k] EXCEPT !.password_hash = passwordHash]
                                         ELSE users[k]]
                        ELSE /\ Len(users) < MaxUsers
                             /\ users' = Append(users, [username |-> address,
                                                        password_hash |-> passwordHash,
                                                        mailbox_limit |-> DefaultMailboxLimit])
                     /\ response' = jsonResponse(AccountObject(mb.id, address), 200)
    /\ UNCHANGED <<messages, tokens, clock>>
    /\ UNCHANGED <<bulkVars, rateVars, generated, dbVars>>

\* POST /token; createJwt gives the token an exp TokenLifetime from now
handleCreateToken ==
    /\ \E address \in {validEmail} \cup otherEmails, password \in Passwords :
         LET user == UserIds(users, address)
             mailboxId == getMailboxIdByAddress(mailboxes, address)
             payload == [address |-> address, mailboxId |-> mailboxId,
                         userId |-> CHOOSE k \in user : TRUE,
                         exp |-> clock + TokenLifetime]
         IN  /\ request' = Request("POST /token", NoHeader, address, password)
             /\ IF address = <<>> \/ password = ""
                THEN /\ response' = errorResponse("Address and password are required", 400)
                     /\ UNCHANGED tokens
                ELSE IF user = {}
                THEN /\ response' = errorResponse("Invalid credentials", 401)
                     /\ UNCHANGED tokens
                ELSE IF sha256Hex(password) # users[CHOOSE k \in user : TRUE].password_hash
                THEN /\ response' = errorResponse("Invalid credentials", 401)
                     /\ UNCHANGED tokens
                ELSE IF mailboxId = 0
                THEN /\ response' = errorResponse("Mailbox not found", 404)
                     /\ UNCHANGED tokens
                ELSE /\ payload \in tokens \/ Cardinality(tokens) < MaxTokens
                     /\ tokens' = tokens \cup {payload}
                     /\ response' = jsonResponse([token |-> payload,
                                                  id |-> ToString(mailboxId)], 200)
    /\ UNCHANGED <<users, mailboxes, messages, clock>>
    /\ UNCHANGED <<bulkVars, rateVars, generated, dbVars>>

\* the payloads of tokens signed with another key: any mailbox, a far exp
ForgedPayloads ==
    { [address |-> mailboxes[m].address, mailboxId |-> m, userId |-> 1,
       exp |-> MaxClock + TokenLifetime + 1] : m \in 1..Len(mailboxes) }

\* the rows of the messages table of one mailbox
MessagesOf(mailboxId) ==
    { k \in 1..Len(messages) : messages[k].mailbox_id = mailboxId /\ ~messages[k].deleted }

\* GET /me
handleGetMe ==
    /\ \E auth \in AuthHeaders(tokens, ForgedPayloads) :
         LET v == verifyBearerToken(auth, clock)
         IN  /\ request' = Request("GET /me", auth, <<>>, "")
             /\ response' =
                  IF ~v.valid THEN errorResponse("Unauthorized", 401)
                  ELSE jsonResponse(AccountObject(v.payload.mailboxId, v.payload.address), 200)
    /\ UNCHANGED <<users, mailboxes, messages, tokens, clock>>
    /\ UNCHANGED <<bulkVars, rateVars, generated, dbVars>>

\* GET /messages
handleGetMessages ==
    /\ \E auth \in AuthHeaders(tokens, ForgedPayloads) :
         LET v == verifyBearerToken(auth, clock)
         IN  /\ request' = Request("GET /messages", auth, <<>>, "")
             /\ response' =
                  IF ~v.valid THEN errorResponse("Unauthorized", 401)
                  ELSE jsonResponse([messages |-> MessagesOf(v.payload.mailboxId)], 200)
    /\ UNCHANGED <<users, mailboxes, messages, tokens, clock>>
    /\ UNCHANGED <<bulkVars, rateVars, generated, dbVars>>

\* GET /messages/{id}
handleGetMessage ==
    /\ \E auth \in AuthHeaders(tokens, ForgedPayloads), messageId \in 1..MaxMessages :
         LET v == verifyBearerToken(auth, clock)
         IN  /\ request' = Request("GET /messages/{id}", auth, <<>>, "")
             /\ response' =
                  IF ~v.valid THEN errorResponse("Unauthorized", 401)
                  ELSE IF messageId \notin MessagesOf(v.payload.mailboxId)
                  THEN errorResponse("Message not found", 404)
                  ELSE jsonResponse([messages |-> {messageId}], 200)
    /\ UNCHANGED <<users, mailboxes, messages, tokens, clock>>
    /\ UNCHANGED <<bulkVars, rateVars, generated, dbVars>>

\* the bodies of PATCH /messages/{id}: with 'seen', and without
PatchBodies == { [seen |-> TRUE], [flagged |-> TRUE] }

\* PATCH /messages/{id}
handlePatchMessage ==
    /\ \E auth \in AuthHeaders(tokens, ForgedPayloads), messageId \in 1..MaxMessages,
          body \in PatchBodies :
         LET v == verifyBearerToken(auth, clock)
         IN  /\ request' = Request("PATCH /messages/{id}", auth, <<>>, "")
             /\ IF ~v.valid
                THEN /\ response' = errorResponse("Unauthorized", 401)
                     /\ UNCHANGED messages
                ELSE IF "seen" \in DOMAIN body
                THEN /\ messages' = [k \in 1..Len(messages) |->
                                        IF k = messageId /\ k \in MessagesOf(v.payload.mailboxId)
                                        THEN [messages[k] EXCEPT !.is_read = body.seen]
                                        ELSE messages[k]]
                     /\ response' = jsonResponse([seen |-> body.seen], 200)
                ELSE /\ response' = errorResponse("Invalid update", 400)
                     /\ UNCHANGED messages
    /\ UNCHANGED <<users, mailboxes, tokens, clock>>
    /\ UNCHANGED <<bulkVars, rateVars, generated, dbVars>>

\* DELETE /messages/{id}
handleDeleteMessage ==
    /\ \E auth \in AuthHeaders(tokens, ForgedPayloads), messageId \in 1..MaxMessages :
         LET v == verifyBearerToken(auth, clock)
         IN  /\ request' = Request("DELETE /messages/{id}", auth, <<>>, "")
             /\ IF ~v.valid
                THEN /\ response' = errorResponse("Unauthorized", 401)
                     /\ UNCHANGED messages
                ELSE /\ messages' = [k \in 1..Len(messages) |->
                                        IF k = messageId /\ k \in MessagesOf(v.payload.mailboxId)
                                        THEN [messages[k] EXCEPT !.deleted = TRUE]
                                        ELSE messages[k]]
                     /\ response' = [status |-> 204, error |-> "", body |-> [none |-> TRUE]]
    /\ UNCHANGED <<users, mailboxes, tokens, clock>>
    /\ UNCHANGED <<bulkVars, rateVars, generated, dbVars>>

\* the recipients of incoming mail: the test address in another letter
\* case, and an address without a local part
EmailRecipients == { <<"A", "@", "d", ".", "c">>, <<"@", "d", ".", "c">> }

\* the email handler: the message is stored in the recipient's mailbox; an
\* error is logged and the message dropped
email ==
    /\ Len(messages) < MaxMessages
    /\ \E to \in EmailRecipients :
         LET toAddress == ToLowerCase(to)
             mb == getOrCreateMailboxId(mailboxes, toAddress)
         IN  /\ request' = Request("email", NoHeader, to, "")
             /\ IF mb.threw
                THEN UNCHANGED <<mailboxes, messages>>
                ELSE /\ Len(mb.mailboxes) <= MaxRows
                     /\ mailboxes' = mb.mailboxes
                     /\ messages' = Append(messages, [mailbox_id |-> mb.id,
                                                      is_read |-> FALSE,
                                                      deleted |-> FALSE])
    /\ response' = NoResponse
    /\ UNCHANGED <<users, tokens, clock>>
    /\ UNCHANGED <<bulkVars, rateVars, generated, dbVars>>

\* a second passes
ClockTick ==
    /\ clock < MaxClock
    /\ clock' = clock + 1
    /\ UNCHANGED <<users, mailboxes, messages, tokens, request, response>>
    /\ UNCHANGED <<bulkVars, rateVars, generated, dbVars>>

WorkerNext ==
    \/ handleCreateAccount
    \/ handleCreateToken
    \/ handleGetMe
    \/ handleGetMessages
    \/ handleGetMessage
    \/ handlePatchMessage
    \/ handleDeleteMessage
    \/ email
    \/ ClockTick

WorkerSpec == Init /\ [][WorkerNext]_vars

(* ---------------------------------------------------------------------- *)
(* database.js: calls that overlap. Each await hands control to the other  *)
(* calls in flight; one statement on the database is one step             *)
(* ---------------------------------------------------------------------- *)
\* the addresses the calls are made with: two spellings of one mailbox, and
\* a second mailbox
DbAddresses ==
    { validEmail, <<"A", "@", "d", ".", "c">>, <<"a", "@", "x", ".", "y">>, <<"@", "d", ".", "c">> }

\* the callers of getOrCreateMailboxId that want the id and nothing else
MailboxCallers == { "handleCreateAccount", "email" }

\* the user names and the limits createUser is called with (0 is falsy)
UserNames == { <<"u">>, <<" ", "u">> }

MailboxLimits == { 0, 1 }

\* the user ids assignMailboxToUser and toggleMailboxPin are called with:
\* those of the users table, and 0 for none
DbUserIds == 0..Len(users)

\* a call of assignMailboxToUser or toggleMailboxPin is over: its locals are
\* gone, how it ended is kept
Over(call, outcome) == [NoCall EXCEPT !.fn = call.fn, !.outcome = outcome]

\* the first statement of getOrCreateMailboxId: the address is normalised and
\* checked, then SELECT id FROM mailboxes WHERE address = ?
BeginGetOrCreate(c, fn, address, uid) ==
    LET normalized == ToLowerCase(Trim(address))
        found == MailboxIds(mailboxes, normalized)
        call == [NoCall EXCEPT !.fn = fn, !.address = normalized, !.uid = uid]
    IN  /\ calls[c].pc = "idle"
        /\ calls' = [calls EXCEPT ![c] =
              IF normalized = <<>> \/ LocalPartOf(normalized) = <<>>
                                   \/ DomainOf(normalized) = <<>>
              THEN IF fn \in MailboxCallers THEN [call EXCEPT !.outcome = "threw"]
                   ELSE Over(call, "threw")
              ELSE IF found # {}
              THEN [call EXCEPT !.pc = "existing", !.outcome = "pending",
                                !.mailboxId = CHOOSE k \in found : TRUE]
              ELSE [call EXCEPT !.pc = "missing", !.outcome = "pending"]]

\* getOrCreateMailboxId has its id: its caller goes on
Resolved(call) ==
    IF call.fn \in MailboxCallers
    THEN [call EXCEPT !.pc = "idle", !.outcome = "returned"]
    ELSE [call EXCEPT !.pc = "resolved"]

\* handleCreateAccount and email call getOrCreateMailboxId
GetOrCreateMailboxId ==
    /\ \E c \in CallIds, fn \in MailboxCallers, address \in DbAddresses :
         BeginGetOrCreate(c, fn, IF fn = "email" THEN ToLowerCase(address) ELSE address, 0)
    /\ UNCHANGED <<mailboxes, users, user_mailboxes>>
    /\ UNCHANGED <<messages, tokens, clock, request, response>>
    /\ UNCHANGED <<bulkVars, rateVars, generated>>

\* the row was there: UPDATE mailboxes SET last_accessed_at, return id
TouchMailbox ==
    /\ \E c \in CallIds :
         /\ calls[c].pc = "existing"
         /\ calls' = [calls EXCEPT ![c] = Resolved(calls[c])]
    /\ UNCHANGED <<mailboxes, users, user_mailboxes>>
    /\ UNCHANGED <<messages, tokens, clock, request, response>>
    /\ UNCHANGED <<bulkVars, rateVars, generated>>

\* the row was not there: INSERT INTO mailboxes, which the UNIQUE constraint
\* on address rejects when the row has been inserted since
InsertMailbox ==
    /\ \E c \in CallIds :
         /\ calls[c].pc = "missing"
         /\ IF MailboxIds(mailboxes, calls[c].address) # {}
            THEN /\ calls' = [calls EXCEPT ![c] =
                        IF calls[c].fn \in MailboxCallers
                        THEN [calls[c] EXCEPT !.pc = "idle", !.outcome = "threw"]
                        ELSE Over(calls[c], "threw")]
                 /\ UNCHANGED mailboxes
            ELSE /\ mailboxes' = Append(mailboxes, [address |-> calls[c].address,
                                                    domain |-> DomainOf(calls[c].address)])
                 /\ calls' = [calls EXCEPT ![c].pc = "inserted"]
    /\ UNCHANGED <<users, user_mailboxes>>
    /\ UNCHANGED <<messages, tokens, clock, request, response>>
    /\ UNCHANGED <<bulkVars, rateVars, generated>>

\* SELECT id FROM mailboxes WHERE address = ? once more, return its id
ReselectMailbox ==
    /\ \E c \in CallIds :
         /\ calls[c].pc = "inserted"
         /\ calls' = [calls EXCEPT ![c] =
              Resolved([calls[c] EXCEPT !.mailboxId =
                          CHOOSE k \in MailboxIds(mailboxes, calls[c].address) : TRUE])]
    /\ UNCHANGED <<mailboxes, users, user_mailboxes>>
    /\ UNCHANGED <<messages, tokens, clock, request, response>>
    /\ UNCHANGED <<bulkVars, rateVars, generated>>

MailboxNext ==
    \/ GetOrCreateMailboxId
    \/ TouchMailbox
    \/ InsertMailbox
    \/ ReselectMailbox

MailboxSpec == Init /\ [][MailboxNext]_vars

\* createUser(db, {username, mailboxLimit}); the UNIQUE constraint on
\* username rejects a second row
createUser ==
    /\ \E username \in UserNames, mailboxLimit \in MailboxLimits :
         LET uname == ToLowerCase(Trim(username))
         IN  /\ uname # <<>>
             /\ UserIds(users, uname) = {}
             /\ Len(users) < MaxUsers
             /\ users' = Append(users,
                   [username |-> uname, password_hash |-> <<"null">>,
                    mailbox_limit |-> Max(0, OrDefault(mailboxLimit, DefaultMailboxLimit))])
    /\ UNCHANGED <<calls, mailboxes, user_mailboxes>>
    /\ UNCHANGED <<messages, tokens, clock, request, response>>
    /\ UNCHANGED <<bulkVars, rateVars, generated>>

\* the rows of user_mailboxes of one user, and the one of a user and a mailbox
BindingsOf(uid) == { b \in user_mailboxes : b.user_id = uid }

Binding(uid, mailboxId) == { b \in BindingsOf(uid) : b.mailbox_id = mailboxId }

\* assignMailboxToUser(db, {userId, address}) up to its first statement
assignMailboxToUser ==
    /\ \E c \in CallIds, address \in DbAddresses, userId \in DbUserIds \ {0} :
         BeginGetOrCreate(c, "assignMailboxToUser", ToLowerCase(Trim(address)), userId)
    /\ UNCHANGED <<mailboxes, users, user_mailboxes>>
    /\ UNCHANGED <<messages, tokens, clock, request, response>>
    /\ UNCHANGED <<bulkVars, rateVars, generated>>

\* SELECT mailbox_limit, SELECT COUNT(1) FROM user_mailboxes WHERE user_id = ?
\* and the comparison of the two
CountMailboxes ==
    /\ \E c \in CallIds :
         LET uid == calls[c].uid
             limit == IF uid \in 1..Len(users) THEN users[uid].mailbox_limit
                      ELSE DefaultMailboxLimit
             count == Cardinality(BindingsOf(uid))
         IN  /\ calls[c].pc = "resolved"
             /\ calls' = [calls EXCEPT ![c] =
                   IF count >= limit
                   THEN Over(calls[c], "refused")
                   ELSE [calls[c] EXCEPT !.pc = "counted"]]
    /\ UNCHANGED <<mailboxes, users, user_mailboxes>>
    /\ UNCHANGED <<messages, tokens, clock, request, response>>
    /\ UNCHANGED <<bulkVars, rateVars, generated>>

\* INSERT OR IGNORE INTO user_mailboxes (user_id, mailbox_id)
BindMailbox ==
    /\ \E c \in CallIds :
         /\ calls[c].pc = "counted"
         /\ user_mailboxes' =
              IF Binding(calls[c].uid, calls[c].mailboxId) # {} THEN user_mailboxes
              ELSE user_mailboxes \cup
                     { [user_id |-> calls[c].uid, mailbox_id |-> calls[c].mailboxId,
                        is_pinned |-> FALSE] }
         /\ calls' = [calls EXCEPT ![c] = Over(calls[c], "returned")]
    /\ UNCHANGED <<mailboxes, users>>
    /\ UNCHANGED <<messages, tokens, clock, request, response>>
    /\ UNCHANGED <<bulkVars, rateVars, generated>>

\* toggleMailboxPin(db, address, userId) up to its first statement:
\* SELECT id FROM mailboxes WHERE address = ?
toggleMailboxPin ==
    /\ \E c \in CallIds, address \in DbAddresses, userId \in DbUserIds :
         LET normalized == ToLowerCase(Trim(address))
             found == MailboxIds(mailboxes, normalized)
             call == [NoCall EXCEPT !.fn = "toggleMailboxPin", !.address = normalized,
                                    !.uid = userId]
         IN  /\ calls[c].pc = "idle"
             /\ calls' = [calls EXCEPT ![c] =
                   IF normalized = <<>> \/ userId = 0 \/ found = {}
                   THEN Over(call, "threw")
                   ELSE [call EXCEPT !.pc = "mailbox", !.outcome = "pending",
                                     !.mailboxId = CHOOSE k \in found : TRUE]]
    /\ UNCHANGED <<mailboxes, users, user_mailboxes>>
    /\ UNCHANGED <<messages, tokens, clock, request, response>>
    /\ UNCHANGED <<bulkVars, rateVars, generated>>

\* SELECT id, is_pinned FROM user_mailboxes WHERE user_id = ? AND mailbox_id = ?
SelectBinding ==
    /\ \E c \in CallIds :
         LET rows == Binding(calls[c].uid, calls[c].mailboxId)
         IN  /\ calls[c].pc = "mailbox"
             /\ calls' = [calls EXCEPT ![c] =
                   IF rows = {} THEN [calls[c] EXCEPT !.pc = "unbound"]
                   ELSE [calls[c] EXCEPT !.pc = "bound",
                                         !.pinned = (CHOOSE b \in rows : TRUE).is_pinned]]
    /\ UNCHANGED <<mailboxes, users, user_mailboxes>>
    /\ UNCHANGED <<messages, tokens, clock, request, response>>
    /\ UNCHANGED <<bulkVars, rateVars, generated>>

\* no row: INSERT INTO user_mailboxes (user_id, mailbox_id, is_pinned) VALUES
\* (?, ?, 1), which the unique constraint rejects when the row is there now
InsertPinned ==
    /\ \E c \in CallIds :
         /\ calls[c].pc = "unbound"
         /\ IF Binding(calls[c].uid, calls[c].mailboxId) # {}
            THEN /\ calls' = [calls EXCEPT ![c] = Over(calls[c], "threw")]
                 /\ UNCHANGED user_mailboxes
            ELSE /\ user_mailboxes' = user_mailboxes \cup
                        { [user_id |-> calls[c].uid, mailbox_id |-> calls[c].mailboxId,
                           is_pinned |-> TRUE] }
                 /\ calls' = [calls EXCEPT ![c] = Over(calls[c], "returned")]
    /\ UNCHANGED <<mailboxes, users>>
    /\ UNCHANGED <<messages, tokens, clock, request, response>>
    /\ UNCHANGED <<bulkVars, rateVars, generated>>

\* a row: UPDATE user_mailboxes SET is_pinned = ? with the opposite of the
\* value read
UpdatePinned ==
    /\ \E c \in CallIds :
         /\ calls[c].pc = "bound"
         /\ user_mailboxes' =
              { IF b \in Binding(calls[c].uid, calls[c].mailboxId)
                THEN [b EXCEPT !.is_pinned = ~calls[c].pinned] ELSE b : b \in user_mailboxes }
         /\ calls' = [calls EXCEPT ![c] = Over(calls[c], "returned")]
    /\ UNCHANGED <<mailboxes, users>>
    /\ UNCHANGED <<messages, tokens, clock, request, response>>
    /\ UNCHANGED <<bulkVars, rateVars, generated>>

BindingNext ==
    \/ createUser
    \/ assignMailboxToUser
    \/ TouchMailbox
    \/ InsertMailbox
    \/ ReselectMailbox
    \/ CountMailboxes
    \/ BindMailbox
    \/ toggleMailboxPin
    \/ SelectBinding
    \/ InsertPinned
    \/ UpdatePinned

BindingSpec == Init /\ [][BindingNext]_vars

(* ---------------------------------------------------------------------- *)
(* The task identifiers of an account-creation run                        *)
(* ---------------------------------------------------------------------- *)
\* createBulkAccounts: emailAddresses = generateEmailAddresses(options),
\* each address the id of its task
GenerateEmailAddresses ==
    /\ \E n \in 0..MaxItems, timestamp \in 0..MaxStamp :
         \E opts \in {[count |-> n]} \cup {[count |-> n, emailPattern |-> pt] : pt \in EmailPatterns} :
           \E randoms \in RandomDraws(n) :
             generated' = [by |-> "generateEmailAddresses",
                           pattern |-> IF "emailPattern" \in DOMAIN opts
                                       THEN opts.emailPattern ELSE <<>>,
                           emails |-> EmailsOfOptions(opts, timestamp, randoms)]
    /\ UNCHANGED <<bulkVars, rateVars, workerVars, dbVars>>

\* createAccountsWithPattern: the emails of its loop, each the id of its task
GeneratePatternEmails ==
    /\ \E n \in 0..MaxItems, pattern \in EmailPatterns :
         \E stamps \in ClockReadings(n), randoms \in RandomDraws(n) :
           generated' = [by |-> "createAccountsWithPattern",
                         pattern |-> pattern,
                         emails |-> EmailsOfPattern(pattern, n, stamps, randoms)]
    /\ UNCHANGED <<bulkVars, rateVars, workerVars, dbVars>>

IdNext ==
    \/ GenerateEmailAddresses
    \/ GeneratePatternEmails

IdSpec == Init /\ [][IdNext]_vars

(* ---------------------------------------------------------------------- *)
(* Views used by the properties                                           *)
(* ---------------------------------------------------------------------- *)
\* what the executor has placed in successful and in failed so far
AllSuccessful == Flatten([b \in 1..Len(batches) |-> batches[b].successful])

AllFailed == Flatten([b \in 1..Len(batches) |-> batches[b].failed])

\* the identifiers in the two lists of the value the operation returned
ResultSuccessIds ==
    IF result.kind = "BulkAccountResult" THEN result.successful ELSE result.valid

ResultFailedIds ==
    IF result.kind = "BulkAccountResult"
    THEN [k \in 1..Len(result.failed) |-> result.failed[k].item]
    ELSE [k \in 1..Len(result.invalid) |-> result.invalid[k].account]

\* the concurrency the caller configured for the run: the per-call option of
\* createBulkAccounts when given, else the manager's configuration
ConfiguredConcurrency ==
    Clamp(IF op = "create" THEN OptionOr(options, "concurrency", config.concurrency)
          ELSE config.concurrency)

Invocations == SumSeq(attempts)

\* the tasks the pool has started at least once
Started == { i \in Items : attempts[i] > 0 }

\* the concurrency and the batchSize given for the run: the per-call option
\* of createBulkAccounts when the caller gave one, else the manager's
GivenConcurrency ==
    IF "concurrency" \in DOMAIN options THEN options.concurrency
    ELSE config.concurrency

GivenBatchSize ==
    IF "batchSize" \in DOMAIN options THEN options.batchSize ELSE config.batchSize

(* ---------------------------------------------------------------------- *)
(* Properties                                                             *)
(* ---------------------------------------------------------------------- *)

C3_RateBound ==
    Len(dispatched) = 2 => dispatched[2] - dispatched[1] >= RequestDelay

\* C4: every entry of failed has retryAttempts = min(failures observed for
\* the item, maxRetries), the item's worker function was invoked exactly
\* retryAttempts + 1 times, and the item is reported once.
FailureRecordExact(f, list) ==
    /\ f.retryAttempts = Min(failures[f.item], config.maxRetries)
    /\ attempts[f.item] = f.retryAttempts + 1
    /\ Cardinality({ k \in 1..Len(list) : list[k].item = f.item }) = 1

C4_RetryBound ==
    /\ \A k \in 1..Len(AllFailed) : FailureRecordExact(AllFailed[k], AllFailed)
    /\ (phase = "returned" /\ op = "create") =>
         /\ Len(result.failed) = Len(AllFailed)
         /\ \A k \in 1..Len(result.failed) :
              FailureRecordExact(result.failed[k], result.failed)

C4_Witness ==
    /\ phase = "returned"
    /\ op = "create"
    /\ config.maxRetries = 2
    /\ Len(tasks) = 1
    /\ Len(result.failed) = 1
    /\ result.failed[1].retryAttempts = 2
    /\ attempts[1] = 3

\* C5: an item whose worker function failed k <= maxRetries times and then
\* succeeded is in successful and not in failed, after exactly k + 1
\* invocations; an item is in failed only with its retries used up.
C5_TransientRecovers ==
    /\ \A i \in Items :
         status[i] = "Succeeded" =>
            /\ failures[i] <= config.maxRetries
            /\ attempts[i] = failures[i] + 1
            /\ Count(AllSuccessful, tasks[i]) = 1
            /\ \A k \in 1..Len(AllFailed) : AllFailed[k].item # tasks[i]
            /\ phase = "returned" =>
                 /\ Count(ResultSuccessIds, tasks[i]) = 1
                 /\ Count(ResultFailedIds, tasks[i]) = 0
    /\ \A k \in 1..Len(AllFailed) :
         failures[AllFailed[k].item] > config.maxRetries

C5_Witness ==
    /\ phase = "returned"
    /\ config.maxRetries = 2
    /\ Len(tasks) = 3
    /\ status[3] = "Succeeded"
    /\ failures[3] = 2
    /\ attempts[3] = 3
    /\ Count(ResultSuccessIds, tasks[3]) = 1

C7_ItemFailureContained ==
    /\ (phase = "running" /\ \E i \in Items : failures[i] > 0) => ENABLED Next
    /\ (phase = "returned" /\ ~cancelSignal) =>
         /\ Settled = Items
         /\ \A i \in Items :
              (failures[i] > 0 /\ failures[i] = attempts[i]) =>
                 /\ Count(ResultFailedIds, tasks[i]) = 1
                 /\ Count(ResultSuccessIds, tasks[i]) = 0

C7_Witness ==
    /\ phase = "returned"
    /\ ~cancelSignal
    /\ Len(tasks) = 3
    /\ failures[1] = attempts[1]
    /\ failures[1] > 0
    /\ Count(ResultFailedIds, tasks[1]) = 1
    /\ Count(ResultSuccessIds, tasks[2]) = 1
    /\ Count(ResultSuccessIds, tasks[3]) = 1

\* C8: when a run in which the cancellation signal was raised has returned,
\* nothing is in flight, what settled is recorded, tasks never finished are
\* in neither list, and the returned result carries cancelled = true.
C8_CancelledResult ==
    (phase = "returned" /\ cancelSignal) =>
        /\ Running = {}
        /\ \A i \in Settled :
             Count(ResultSuccessIds, tasks[i]) + Count(ResultFailedIds, tasks[i]) = 1
        /\ \A i \in Items \ Settled :
             Count(ResultSuccessIds, tasks[i]) + Count(ResultFailedIds, tasks[i]) = 0
        /\ "cancelled" \in DOMAIN result
        /\ result.cancelled = TRUE

\* C9: from one progress snapshot handed to the callback to the next,
\* completed does not decrease and errorCount does not decrease.
C9_ProgressMonotone ==
    [][lastEvent.type # "none" =>
          /\ lastEvent'.progress.completed >= lastEvent.progress.completed
          /\ lastEvent'.progress.errorCount >= lastEvent.progress.errorCount]_vars

C9_Witness ==
    /\ lastEvent.type = "progress"
    /\ lastEvent.progress.completed = 3
    /\ lastEvent.progress.errorCount = 2
    /\ Len(batches) = 2

\* C10: a bulk operation over no input has no task, never invokes the
\* worker function, can return at once, and returns empty lists.
C10_EmptyInput ==
    (phase # "idle" /\ options.count = 0) =>
        /\ Len(tasks) = 0
        /\ Invocations = 0
        /\ phase = "running" => (ENABLED Return /\ ~ENABLED Dispatch)
        /\ phase = "returned" =>
             /\ ResultSuccessIds = <<>>
             /\ ResultFailedIds = <<>>

C10_Witness ==
    /\ phase = "returned"
    /\ op = "validate"
    /\ options.count = 0
    /\ result.valid = <<>>
    /\ result.invalid = <<>>
    /\ result.summary.validationRate = "NaN"

C16_Backoff ==
    \A i \in Items :
        /\ Len(delays[i]) <= config.maxRetries
        /\ Len(delays[i]) = IF status[i] \in {"Retrying", "Pending"} THEN attempts[i]
                            ELSE attempts[i] - 1
        /\ status[i] = "Failed" => Len(delays[i]) = config.maxRetries
        /\ \A k \in 1..Len(delays[i]) :
             /\ delays[i][k] = config.retryDelay * 2^(k - 1)
             /\ k > 1 => delays[i][k] = 2 * delays[i][k - 1]

C16_Witness ==
    /\ config.maxRetries = 2
    /\ \E i \in Items :
         /\ status[i] = "Failed"
         /\ delays[i] = <<2000, 4000>>

C18_ClampedToOne ==
    phase # "idle" =>
        /\ GivenConcurrency < 1 => (Limit = 1 /\ Cardinality(Running) <= 1)
        /\ GivenBatchSize < 1 =>
             (Clamp(runOpts.batchSize) = 1 /\ Len(batches) = Len(tasks))

\* C19: a request the client reports as failed was tried 1 + retries times.
C19_RetriesBeforeFailure ==
    \A c \in Callers : reported[c] = "failed" => fetches[c] = 1 + Retries

\* the endpoints fetch() routes only after verifyBearerToken
ProtectedEndpoints ==
    { "GET /me", "GET /messages", "GET /messages/{id}", "PATCH /messages/{id}",
      "DELETE /messages/{id}" }

\* an Authorization header without a Bearer token, with a token whose
\* signature is not the worker's, or with a token whose exp has passed at t
BadToken(auth, t) ==
    \/ auth.scheme # "Bearer"
    \/ ~auth.signed
    \/ auth.payload.exp <= t

\* a step in which the worker answers a request to one of these endpoints
Answers(endpoints) ==
    /\ clock' = clock
    /\ request'.endpoint \in endpoints

\* C12: a request to a protected endpoint without a Bearer token, with a
\* token not signed by the worker or with an expired token is answered 401,
\* its answer carries no message and the messages are left as they were.
C12_Unauthorized ==
    [][(Answers(ProtectedEndpoints) /\ BadToken(request'.auth, clock')) =>
          /\ response'.status = 401
          /\ response'.body = [none |-> TRUE]
          /\ messages' = messages]_vars

C12_Witness ==
    /\ request.endpoint \in ProtectedEndpoints
    /\ request.auth.signed
    /\ request.auth.payload.exp <= clock
    /\ response.status = 401
    /\ MessagesOf(request.auth.payload.mailboxId) # {}

\* C13: an account-creation request for an address that already has an
\* account is answered with an error, not with a success.
C13_DuplicateRejected ==
    (request.endpoint = "POST /accounts" /\ request.existed) => response.status >= 400

\* the tables after the last request have the rows they had before it
NothingCreated ==
    /\ Len(users) = request.usersBefore
    /\ Len(mailboxes) = request.mailboxesBefore

\* the domain of an address: what follows its first '@'
AddressDomain(address) ==
    LET at == IndexOf(address, "@")
    IN  IF at = 0 - 1 THEN <<>> ELSE SliceFrom(address, at + 1)

\* C14: every user record has an address on a configured domain, and an
\* account-creation request for another domain is answered 'Invalid domain'
\* and creates neither a user nor a mailbox.
C14_ConfiguredDomains ==
    /\ \A k \in 1..Len(users) : AddressDomain(users[k].username) \in AllowedDomains
    /\ (/\ request.endpoint = "POST /accounts"
        /\ request.hasPassword
        /\ request.address # <<>>
        /\ AddressDomain(request.address) \notin AllowedDomains) =>
           (response.error = "Invalid domain" /\ NothingCreated)

\* an address with no '@', an empty local part, an empty domain part, a
\* domain without a dot, the empty string, or a space in it
Malformed(address) ==
    LET at == IndexOf(address, "@")
        domain == AddressDomain(address)
    IN  \/ address = <<>>
        \/ at = 0 - 1
        \/ at = 0
        \/ domain = <<>>
        \/ IndexOf(domain, ".") = 0 - 1
        \/ IndexOf(address, " ") # 0 - 1

\* C15: an account-creation request with a malformed address is answered 400
\* or 422 and creates no account.
C15_MalformedRejected ==
    (request.endpoint = "POST /accounts" /\ Malformed(request.address)) =>
        (response.status \in {400, 422} /\ NothingCreated)

\* C20: a successful account creation is answered 201 with an account of the
\* requested address, a non-empty id, and isDisabled and isDeleted false.
C20_Created ==
    (request.endpoint = "POST /accounts" /\ response.status \in 200..299) =>
        /\ response.status = 201
        /\ response.body.address = request.address
        /\ response.body.id # ""
        /\ ~response.body.isDisabled
        /\ ~response.body.isDeleted

\* the moves of the per-task state machine
TaskTransitions ==
    { <<"Pending", "Running">>, <<"Running", "Succeeded">>, <<"Running", "Failed">>,
      <<"Running", "Retrying">>, <<"Retrying", "Pending">> }

\* how often task i has been reported to the aggregation
Reports(i) ==
    Count(AllSuccessful, tasks[i]) +
    Cardinality({ k \in 1..Len(AllFailed) : AllFailed[k].item = tasks[i] })

\* C21: a task moves only along Pending -> Running -> Succeeded | Failed |
\* Retrying -> Pending; a task waits in the queue once and only while
\* Pending, so no two workers hold it; Succeeded and Failed are left by no
\* step; a terminal state is reported once to the tracker and once to the
\* aggregation, and nothing else is reported.
C21_TaskStateMachine ==
    /\ [][\A i \in Items :
            \/ status'[i] = status[i]
            \/ <<status[i], status'[i]>> \in TaskTransitions]_vars
    /\ [](\A i \in Items :
            /\ Count(queue, i) = IF status[i] = "Pending" THEN 1 ELSE 0
            /\ Reports(i) = IF i \in Settled THEN 1 ELSE 0
            /\ status[i] = "Succeeded" => Count(AllSuccessful, tasks[i]) = 1)
    /\ [](/\ tracker.completed = Cardinality(Settled)
          /\ tracker.errorCount = Cardinality({ i \in Items : status[i] = "Failed" }))

C21_Witness ==
    /\ phase = "running"
    /\ \E i \in Items : status[i] = "Succeeded" /\ attempts[i] = 2
    /\ \E i \in Items : status[i] = "Failed" /\ attempts[i] >= 2
    /\ \E i \in Items : status[i] = "Running" /\ attempts[i] = 2
    /\ tracker.completed = 2

\* C24: a task in its backoff wait holds no slot: whenever fewer than the
\* limit of invocations are in flight and a task is pending, the pool can
\* start it, however many tasks are Retrying.
C24_BackoffHoldsNoSlot ==
    (/\ phase = "running"
     /\ ~cancelSignal
     /\ queue # <<>>
     /\ Cardinality({ i \in Items : status[i] = "Running" }) < Limit) => ENABLED Dispatch

C24_Witness ==
    /\ phase = "running"
    /\ Limit = 2
    /\ \E i \in Items : status[i] = "Retrying"
    /\ Cardinality({ i \in Items : status[i] = "Running" }) = 2
    /\ \E i \in Items : status[i] = "Running" /\ attempts[i] = 1
    /\ \E i \in Items : status[i] = "Retrying" /\ attempts[i] = 2

\* the retries performed in the run: the invocations of each started task
\* beyond its first
RetriesPerformed == SumSeq([i \in Items |-> Max(attempts[i] - 1, 0)])

\* C29: the totalRetries metric of the returned result is the number of
\* retries performed during the run.
C29_TotalRetries ==
    phase = "returned" => result.metrics.totalRetries = RetriesPerformed

\* the events that end an operation
TerminalEvents == {"completed", "error"}

\* C28: the progress callback of a bulk operation receives 'started' before
\* any 'progress' event, and one terminal event ('completed' or 'error')
\* after which it receives nothing more.
C28_EventOrder ==
    /\ [][lastEvent'.type = "progress" => lastEvent.type \in {"started", "progress"}]_vars
    /\ [][lastEvent.type \in TerminalEvents => lastEvent' = lastEvent]_vars
    /\ [](phase = "returned" => lastEvent.type \in TerminalEvents)

\* C30: the task identifiers generated for one account-creation run are
\* pairwise distinct, for every count and every pattern.
C30_DistinctIds ==
    \A i \in 1..Len(generated.emails) : \A j \in 1..Len(generated.emails) :
        i # j => generated.emails[i] # generated.emails[j]

\* C25: the last snapshot handed to the progress callback of a run that has
\* returned is the final state: completed is |successful| + |failed| of the
\* result (the total when the run was not cancelled) and errorCount is
\* |failed|, whatever updates were held back on the way.
C25_FinalSnapshot ==
    (phase = "returned" /\ lastEvent.type # "none") =>
        /\ lastEvent.progress.completed = Len(ResultSuccessIds) + Len(ResultFailedIds)
        /\ lastEvent.progress.errorCount = Len(ResultFailedIds)
        /\ ~cancelSignal => lastEvent.progress.completed = lastEvent.progress.total

C25_Witness ==
    /\ phase = "returned"
    /\ op = "create"
    /\ lastEvent.type = "completed"
    /\ coalesced
    /\ lastEvent.progress.completed = 3
    /\ lastEvent.progress.errorCount = 1
    /\ Len(result.failed) = 1

\* the mailbox bound to a user record: the one handleCreateToken puts in the
\* tokens it issues for it
MailboxOfUser(k) == getMailboxIdByAddress(mailboxes, users[k].username)

\* every token was issued for the mailbox of its user record, and a step
\* that reads, marks or deletes a message does so in the mailbox of the user
\* record of the token it was sent with
OwnMailboxOnly ==
    /\ [](\A t \in tokens : t.mailboxId = MailboxOfUser(t.userId))
    /\ [][(Answers({"GET /messages", "GET /messages/{id}"}) /\ response'.status = 200) =>
            \A k \in response'.body.messages :
                messages[k].mailbox_id = MailboxOfUser(request'.auth.payload.userId)]_vars
    /\ [][Answers({"PATCH /messages/{id}", "DELETE /messages/{id}"}) =>
            \A k \in 1..Len(messages) :
                messages'[k] # messages[k] =>
                    messages[k].mailbox_id = MailboxOfUser(request'.auth.payload.userId)]_vars

\* no two user records are bound to one mailbox
OneUserPerMailbox ==
    \A j \in 1..Len(users) : \A k \in 1..Len(users) :
        j # k => MailboxOfUser(j) # MailboxOfUser(k)

\* C22: a token holder reads, marks as read and deletes only messages of the
\* mailbox bound to their own account, and two different user records are
\* never bound to the same mailbox.
C22_OwnMailbox ==
    /\ OwnMailboxOnly
    /\ []OneUserPerMailbox

\* C23: POST /token succeeds only with the stored password of the account,
\* and no request without a valid token replaces the stored password of an
\* existing account.
C23_PasswordProtected ==
    /\ [][(Answers({"POST /token"}) /\ response'.status = 200) =>
            \E k \in UserIds(users, request'.address) :
                sha256Hex(request'.password) = users[k].password_hash]_vars
    /\ [][\A k \in 1..Len(users) :
            users'[k].password_hash # users[k].password_hash =>
                verifyBearerToken(request'.auth, clock).valid]_vars

\* the calls of getOrCreateMailboxId that are over and were made with an
\* address that has a local part and a domain
MailboxCallsOver ==
    { c \in CallIds : /\ calls[c].fn \in MailboxCallers
                      /\ calls[c].pc = "idle"
                      /\ LocalPartOf(calls[c].address) # <<>> }

\* exactly one mailbox row has the address of a call that is over, and a
\* call that returned gave the id of that row
OneRowPerAddress ==
    \A c \in MailboxCallsOver :
        /\ Cardinality(MailboxIds(mailboxes, calls[c].address)) = 1
        /\ calls[c].outcome = "returned" =>
              calls[c].mailboxId \in MailboxIds(mailboxes, calls[c].address)

\* C26: after any interleaving of getOrCreateMailboxId calls, exactly one
\* mailbox row exists for the normalised address of each call, every call
\* returned the id of that row, and no call failed.
C26_ConcurrentGetOrCreate ==
    /\ OneRowPerAddress
    /\ \A c \in MailboxCallsOver : calls[c].outcome = "returned"

\* the bindings of every user are within the limit
WithinLimit ==
    \A u \in 1..Len(users) : Cardinality(BindingsOf(u)) <= users[u].mailbox_limit

\* a step in which an assignMailboxToUser call is refused for the limit
Refused ==
    \E c \in CallIds : calls[c].outcome # "refused" /\ calls'[c].outcome = "refused"

\* C27: the number of mailboxes bound to a user never exceeds the user's
\* mailbox_limit, and an assignment refused for the limit leaves the
\* bindings as they were.
C27_WithinLimit ==
    /\ []WithinLimit
    /\ [][Refused => user_mailboxes' = user_mailboxes]_vars

====
